---- MODULE Spec2Model ----
(***************************************************************************)
(* A model of lgtm-cli: the secret resolver and configuration loader       *)
(* (config.py), the HTTP client (client.py) and the command dispatcher     *)
(* (cli.py).                                                               *)
(*                                                                         *)
(* Python strings that the code inspects character by character (config    *)
(* values, secrets, credentials) are sequences of one-character strings.   *)
(* Names that the code only compares (instance names, header names,        *)
(* exception types) are TLA+ strings.  An Optional[T] is <<>> for None and *)
(* <<x>> for a value x, so that None and the empty string stay distinct.   *)
(***************************************************************************)
EXTENDS Integers, Sequences, FiniteSets, TLC

VARIABLES
    call,       \* unit harness: the pending call of a pure function and its arguments
    ret,        \* unit harness: what that call returned or raised (None before it ran)
    fs,         \* the configuration file: None when missing, else its document
    opTool,     \* the 1Password CLI: whether it is installed, and its vault
    environ,    \* os.environ
    argv,       \* the command line: --config, --instance, the group and the command
    pc,         \* where the process is
    config,     \* ctx.obj["config"]: None until load_config returned a Config
    selected,   \* what Config.get_instance returned or raised in the group callback
    client,     \* ctx.obj["client"]: the ServiceConfig the client was built from
    requests,   \* every HTTP request issued so far, in order
    transports, \* every httpx.Client created so far: the call that owns it, open or closed
    responses,  \* what came back for each request answered so far, in order
    stdout,     \* lines written to standard output
    stderr,     \* lines written to the diagnostic stream
    exitCode    \* the process exit status, None while running

vars == <<call, ret, fs, opTool, environ, argv, pc, config, selected, client,
          requests, transports, responses, stdout, stderr, exitCode>>

cliVars == <<fs, opTool, environ, argv, pc, config, selected, client,
             requests, transports, responses, stdout, stderr, exitCode>>

----------------------------------------------------------------------------
(* Optional values and results *)

None == <<>>

Some(x) == <<x>>

\* Python truthiness of an Optional[str] held as characters: None and "" are falsy.
Truthy(o) == o # None /\ o[1] # <<>>

\* Python truthiness of an Optional[str] held as a name: None and "" are falsy.
TruthyName(o) == o # None /\ o[1] # ""

\* A call that returned v.
Ok(v) == [ok |-> TRUE, val |-> v]

\* A call that raised: the exception type, its message text and the value the
\* message is formatted with.
Raise(type, msg, arg) == [ok |-> FALSE, type |-> type, msg |-> msg, arg |-> arg]

\* Expressions evaluated one after the other: the first exception propagates,
\* otherwise the values are at hand, in order.
Sequenced(rs) ==
    IF \A i \in DOMAIN rs : rs[i].ok
    THEN Ok([i \in DOMAIN rs |-> rs[i].val])
    ELSE rs[CHOOSE i \in DOMAIN rs : ~rs[i].ok /\ \A j \in 1..(i - 1) : rs[j].ok]

\* The code that runs on the value of r, unless r raised.
Then(r, F(_)) == IF r.ok THEN F(r.val) ELSE r

----------------------------------------------------------------------------
(* Character strings *)

RECURSIVE Flatten(_)
\* The concatenation of a sequence of strings.
Flatten(parts) ==
    IF parts = <<>> THEN <<>> ELSE Head(parts) \o Flatten(Tail(parts))

StartsWith(s, p) == Len(s) >= Len(p) /\ SubSeq(s, 1, Len(p)) = p

\* s[i..]: the suffix of s from position i (empty past the end).
From(s, i) == SubSeq(s, i, Len(s))

\* The least position >= i holding character c, or 0.
IndexFrom(s, c, i) ==
    IF \E k \in i..Len(s) : s[k] = c
    THEN CHOOSE k \in i..Len(s) : s[k] = c /\ \A j \in i..(k - 1) : s[j] # c
    ELSE 0

Whitespace == {" ", "\n", "\t"}

\* str.strip(): leading and trailing whitespace removed.
Strip(s) ==
    LET keep == {i \in 1..Len(s) : s[i] \notin Whitespace}
    IN  IF keep = {} THEN <<>>
        ELSE SubSeq(s, CHOOSE i \in keep : \A j \in keep : i <= j,
                       CHOOSE i \in keep : \A j \in keep : i >= j)

OP_SCHEME == <<"o", "p", ":", "/", "/">>

OPEN == <<"$", "{">>

----------------------------------------------------------------------------
(* config.py: resolve_1password_ref *)

\* subprocess.run(["op", "read", ref]): the tool's exit status and streams.
\* A reference the vault does not hold makes the tool exit non-zero.
RunOp(tool, ref) ==
    IF ref \in DOMAIN tool.vault
    THEN [rc |-> 0, stdout |-> tool.vault[ref], stderr |-> <<>>]
    ELSE [rc |-> 1, stdout |-> <<>>, stderr |-> tool.stderr]

\* check=True: a non-zero exit raises CalledProcessError, reported with the
\* trimmed stderr; otherwise the trimmed stdout is the secret.
OpResult(r) ==
    IF r.rc # 0
    THEN Raise("RuntimeError", "Failed to read from 1Password: ", Strip(r.stderr))
    ELSE Ok(Strip(r.stdout))

resolve_1password_ref(tool, ref) ==
    IF ~tool.installed
    THEN Raise("RuntimeError", "1Password CLI (op) not found", <<>>)
    ELSE OpResult(RunOp(tool, ref))

----------------------------------------------------------------------------
(* config.py: resolve_secret *)

\* A match of  prefix [^}]+ \}  that starts exactly at position i: the position
\* of its closing brace, or 0 when the pattern does not match there.
MatchEnd(s, prefix, i) ==
    LET n == Len(prefix)
        k == IndexFrom(s, "}", i + n)
    IN  IF i + n - 1 <= Len(s) /\ SubSeq(s, i, i + n - 1) = prefix /\ k > i + n
        THEN k ELSE 0

\* re.search from position i: the start of the leftmost match, or 0.
FindMatch(s, prefix, i) ==
    IF \E k \in i..Len(s) : MatchEnd(s, prefix, k) # 0
    THEN CHOOSE k \in i..Len(s) :
            /\ MatchEnd(s, prefix, k) # 0
            /\ \A j \in i..(k - 1) : MatchEnd(s, prefix, j) = 0
    ELSE 0

RECURSIVE SubOp(_, _)
\* re.sub(op_pattern, replace_op, value): every ${op://...} match, left to
\* right, is replaced by what the tool returns; the first failure propagates.
SubOp(tool, s) ==
    LET i == FindMatch(s, OPEN \o OP_SCHEME, 1)
    IN  IF i = 0 THEN Ok(s)
        ELSE LET e == MatchEnd(s, OPEN \o OP_SCHEME, i)
             IN  Then(Sequenced(<<resolve_1password_ref(tool, SubSeq(s, i + 2, e - 1)),
                                  SubOp(tool, From(s, e + 1))>>),
                      LAMBDA v : Ok(SubSeq(s, 1, i - 1) \o v[1] \o v[2]))

\* Mutant: an unset variable leaves its placeholder in the text.
EnvGetKeepPlaceholder(env, name) ==
    IF name \in DOMAIN env THEN env[name] ELSE OPEN \o name \o <<"}">>

\* os.environ.get(var_name, "")
EnvGet(env, name) == IF name \in DOMAIN env THEN env[name] ELSE <<>>

RECURSIVE SubEnv(_, _)
\* re.sub(env_pattern, replace_env, value): every ${...} match, left to right,
\* is replaced by the variable's value; the replacement is not scanned again.
SubEnv(env, s) ==
    LET i == FindMatch(s, OPEN, 1)
    IN  IF i = 0 THEN s
        ELSE LET e == MatchEnd(s, OPEN, i)
             IN  SubSeq(s, 1, i - 1) \o EnvGet(env, SubSeq(s, i + 2, e - 1))
                    \o SubEnv(env, From(s, e + 1))

resolve_secret(env, tool, value) ==
    IF StartsWith(value, OP_SCHEME)
    THEN resolve_1password_ref(tool, value)
    ELSE Then(SubOp(tool, value), LAMBDA v : Ok(SubEnv(env, v)))

----------------------------------------------------------------------------
(* config.py: parse_service_config, load_config *)

\* A mapping read from the file that holds no key: `not data` is true of it.
EmptyMapping == [url |-> None, token |-> None, username |-> None, headers |-> None]

RECURSIVE ResolveHeaders(_, _, _)
\* {k: resolve_secret(v) for k, v in headers.items()}: the values are resolved
\* in the file's order and the first failure propagates.
ResolveHeaders(env, tool, pairs) ==
    IF pairs = <<>> THEN Ok(<<>>)
    ELSE Then(Sequenced(<<resolve_secret(env, tool, pairs[1][2]),
                          ResolveHeaders(env, tool, Tail(pairs))>>),
              LAMBDA v : Ok(<<<<pairs[1][1], v[1]>>>> \o v[2]))

\* dict(pairs): a later entry of the same key replaces an earlier one.
Dict(pairs) ==
    [k \in {pairs[i][1] : i \in 1..Len(pairs)} |->
        pairs[CHOOSE i \in 1..Len(pairs) :
                /\ pairs[i][1] = k
                /\ \A j \in (i + 1)..Len(pairs) : pairs[j][1] # k][2]]

ServiceConfig(url, token, username, headers) ==
    [url |-> url, token |-> token, username |-> username, headers |-> headers]

\* resolve_secret(data[key]) if data.get(key) else None
ResolveOptional(env, tool, o) ==
    IF Truthy(o)
    THEN Then(resolve_secret(env, tool, o[1]), LAMBDA v : Ok(Some(v)))
    ELSE Ok(None)

\* The keyword arguments are evaluated in the order url, token, username,
\* headers; an exception in one of them leaves no ServiceConfig.
parse_service_config(env, tool, data) ==
    IF data = None \/ data[1] = EmptyMapping THEN Ok(None)
    ELSE Then(Sequenced(<<
                resolve_secret(env, tool,
                               IF data[1].url = None THEN <<>> ELSE data[1].url[1]),
                ResolveOptional(env, tool, data[1].token),
                ResolveOptional(env, tool, data[1].username),
                ResolveHeaders(env, tool,
                               IF data[1].headers = None THEN <<>>
                               ELSE data[1].headers[1])>>),
              LAMBDA v : Ok(Some(ServiceConfig(
                    v[1], v[2], v[3],
                    IF v[4] = <<>> THEN None ELSE Some(Dict(v[4]))))))

Backends == <<"loki", "prometheus", "tempo", "alerting">>

\* InstanceConfig(name, loki=..., prometheus=..., tempo=..., alerting=...): the
\* four sections are parsed in this order and the first failure propagates.
ParseInstance(env, tool, inst) ==
    Then(Sequenced(<<parse_service_config(env, tool, inst.loki),
                     parse_service_config(env, tool, inst.prometheus),
                     parse_service_config(env, tool, inst.tempo),
                     parse_service_config(env, tool, inst.alerting)>>),
         LAMBDA v : Ok([name |-> inst.name, loki |-> v[1], prometheus |-> v[2],
                        tempo |-> v[3], alerting |-> v[4]]))

RECURSIVE ParseInstancesSkipFailed(_, _, _)
\* Mutant: an instance whose secrets do not resolve is left out.
ParseInstancesSkipFailed(env, tool, insts) ==
    IF insts = <<>> THEN Ok(<<>>)
    ELSE Then(ParseInstancesSkipFailed(env, tool, Tail(insts)),
              LAMBDA v : Ok((IF ParseInstance(env, tool, insts[1]).ok
                             THEN <<ParseInstance(env, tool, insts[1]).val>>
                             ELSE <<>>) \o v))

RECURSIVE ParseInstances(_, _, _)
\* The loop of load_config over data["instances"], in the file's order.
ParseInstances(env, tool, insts) ==
    IF insts = <<>> THEN Ok(<<>>)
    ELSE Then(Sequenced(<<ParseInstance(env, tool, insts[1]),
                          ParseInstances(env, tool, Tail(insts))>>),
              LAMBDA v : Ok(<<v[1]>> \o v[2]))

load_config(env, tool, file) ==
    IF file = None
    THEN Raise("FileNotFoundError", "Config file not found: ", <<>>)
    ELSE Then(ParseInstances(env, tool, file[1].instances),
              LAMBDA v : Ok([version          |-> file[1].version,
                             default_instance |-> file[1].default_instance,
                             instances        |-> v]))

----------------------------------------------------------------------------
(* config.py: Config.get_instance *)

InstanceNamesOf(cfg) == {cfg.instances[i].name : i \in 1..Len(cfg.instances)}

\* self.instances[name] for a name the mapping holds.
InstanceNamed(cfg, name) ==
    cfg.instances[CHOOSE i \in 1..Len(cfg.instances) : cfg.instances[i].name = name]

\* Mutant: default_instance is looked at before the name.
get_instance_default_first(cfg, name) ==
    IF TruthyName(cfg.default_instance) /\ cfg.default_instance[1] \in InstanceNamesOf(cfg)
    THEN Ok(InstanceNamed(cfg, cfg.default_instance[1]))
    ELSE IF TruthyName(name) /\ name[1] \in InstanceNamesOf(cfg)
    THEN Ok(InstanceNamed(cfg, name[1]))
    ELSE IF TruthyName(name)
    THEN Raise("ValueError", "Instance not found in config", name[1])
    ELSE IF cfg.instances = <<>>
    THEN Raise("StopIteration", "", "")
    ELSE Ok(cfg.instances[1])

get_instance(cfg, name) ==
    IF TruthyName(name)
    THEN IF name[1] \notin InstanceNamesOf(cfg)
         THEN Raise("ValueError", "Instance not found in config", name[1])
         ELSE Ok(InstanceNamed(cfg, name[1]))
    ELSE IF TruthyName(cfg.default_instance)
    THEN IF cfg.default_instance[1] \notin InstanceNamesOf(cfg)
         THEN Raise("KeyError", "", cfg.default_instance[1])
         ELSE Ok(InstanceNamed(cfg, cfg.default_instance[1]))
    ELSE IF cfg.instances = <<>>
    THEN Raise("StopIteration", "", "")
    ELSE Ok(cfg.instances[1])

----------------------------------------------------------------------------
(* client.py: LGTMClient._get_headers *)

\* The printable ASCII characters, code 32 first ("GRAVE" holds the place of
\* code 96, which no string of the model contains).
Printable ==
    <<
       " ", "!", "\"", "#", "$", "%", "&", "'", "(", ")", "*", "+",
       ",", "-", ".", "/", "0", "1", "2", "3", "4", "5", "6", "7",
       "8", "9", ":", ";", "<", "=", ">", "?", "@", "A", "B", "C",
       "D", "E", "F", "G", "H", "I", "J", "K", "L", "M", "N", "O",
       "P", "Q", "R", "S", "T", "U", "V", "W", "X", "Y", "Z", "[",
       "\\", "]", "^", "_", "GRAVE", "a", "b", "c", "d", "e", "f", "g",
       "h", "i", "j", "k", "l", "m", "n", "o", "p", "q", "r", "s",
       "t", "u", "v", "w", "x", "y", "z", "{", "|", "}", "~" >>

\* str.encode(): the byte of a character.
Ord(c) == IF c = "\n" THEN 10 ELSE IF c = "\t" THEN 9
          ELSE 31 + CHOOSE i \in 1..Len(Printable) : Printable[i] = c

Encode(s) == [i \in 1..Len(s) |-> Ord(s[i])]

\* The base64 alphabet, value 0 first.
B64Alphabet ==
    <<
       "A", "B", "C", "D", "E", "F", "G", "H", "I", "J", "K", "L", "M",
       "N", "O", "P", "Q", "R", "S", "T", "U", "V", "W", "X", "Y", "Z",
       "a", "b", "c", "d", "e", "f", "g", "h", "i", "j", "k", "l", "m",
       "n", "o", "p", "q", "r", "s", "t", "u", "v", "w", "x", "y", "z",
       "0", "1", "2", "3", "4", "5", "6", "7", "8", "9", "+", "/" >>

B64Char(v) == B64Alphabet[v + 1]

RECURSIVE b64encode(_)
\* base64.b64encode(bytes).decode(): three bytes make four characters, and a
\* last group of one or two bytes is padded with "=".
b64encode(bytes) ==
    IF bytes = <<>> THEN <<>>
    ELSE IF Len(bytes) = 1
    THEN LET n == bytes[1] * 16
         IN  <<B64Char(n \div 64), B64Char(n % 64), "=", "=">>
    ELSE IF Len(bytes) = 2
    THEN LET n == (bytes[1] * 256 + bytes[2]) * 4
         IN  <<B64Char(n \div 4096), B64Char((n \div 64) % 64), B64Char(n % 64), "=">>
    ELSE LET n == bytes[1] * 65536 + bytes[2] * 256 + bytes[3]
         IN  <<B64Char(n \div 262144), B64Char((n \div 4096) % 64),
               B64Char((n \div 64) % 64), B64Char(n % 64)>>
                \o b64encode(SubSeq(bytes, 4, Len(bytes)))

BASIC == <<"B", "a", "s", "i", "c", " ">>

BEARER == <<"B", "e", "a", "r", "e", "r", " ">>

APPLICATION_JSON ==
    <<"a", "p", "p", "l", "i", "c", "a", "t", "i", "o", "n", "/", "j", "s", "o", "n">>

\* Mutant: the token is tested first, so a username never selects Basic.
DerivedAuthorizationBearerFirst(svc) ==
    IF Truthy(svc.token) THEN Some(BEARER \o svc.token[1]) ELSE None

\* The Authorization header derived from username and token, None if neither
\* branch of the if/elif is taken.
DerivedAuthorization(svc) ==
    IF Truthy(svc.username) /\ Truthy(svc.token)
    THEN Some(BASIC \o b64encode(Encode(svc.username[1] \o <<":">> \o svc.token[1])))
    ELSE IF Truthy(svc.token)
    THEN Some(BEARER \o svc.token[1])
    ELSE None

\* dict.update: the entries of `new` replace or extend those of `old`.
Update(old, new) ==
    [k \in DOMAIN old \cup DOMAIN new |-> IF k \in DOMAIN new THEN new[k] ELSE old[k]]

\* `if self.config.headers: headers.update(self.config.headers)`
MergeCustom(headers, svc) ==
    IF svc.headers # None /\ DOMAIN svc.headers[1] # {}
    THEN Update(headers, svc.headers[1])
    ELSE headers

_get_headers(svc) ==
    LET accept  == [k \in {"Accept"} |-> APPLICATION_JSON]
        auth    == DerivedAuthorization(svc)
        derived == IF auth = None THEN accept
                   ELSE Update(accept, [k \in {"Authorization"} |-> auth[1]])
    IN  MergeCustom(derived, svc)

----------------------------------------------------------------------------
(* client.py: LGTMClient.__init__ and the four calls *)

RECURSIVE RStrip(_, _)
\* str.rstrip(c): every trailing c removed.
RStrip(s, c) ==
    IF s # <<>> /\ s[Len(s)] = c THEN RStrip(SubSeq(s, 1, Len(s) - 1), c) ELSE s

\* LGTMClient(config): the ServiceConfig and the base URL derived from it.
LGTMClient(svc) == [config |-> svc, base_url |-> RStrip(svc.url, "/")]

\* The request that get / post_json / delete build for a path.
Request(cl, method, path) ==
    [method |-> method, base_url |-> cl.base_url, path |-> path,
     headers |-> _get_headers(cl.config)]

\* Mutant: the request goes out twice.
IssueTwice(reqs, req) == reqs \o <<req, req>>

\* client.get(...) / client.post(...) / client.delete(...): one request on the wire.
Issue(reqs, req) == Append(reqs, req)

\* with httpx.Client(timeout=self.timeout) as client: a transport of its own
\* for the call that enters the block.
Acquire(ts, owner) == Append(ts, [owner |-> owner, open |-> TRUE])

\* Mutant: delete parses the body like the other calls.
ReceiveAlwaysParsed(method, outcome) ==
    IF outcome.status = "no_connection" THEN Raise("ConnectError", "", "")
    ELSE IF outcome.status = "error" THEN Raise("HTTPStatusError", "", "")
    ELSE IF outcome.body = "json" THEN Ok("body")
    ELSE Raise("JSONDecodeError", "", "")

\* Mutant: the transport is closed only when the block ends without an exception.
ReleaseOnSuccess(ts, raised) ==
    IF raised THEN ts ELSE [ts EXCEPT ![Len(ts)].open = FALSE]

\* The end of the with block: __exit__ closes the transport, whether the
\* block returned or raised.
Release(ts, raised) == [ts EXCEPT ![Len(ts)].open = FALSE]

\* What the backend and the network can answer to one request: a success or
\* an error status, each with a JSON body, an empty body or a body that is no
\* JSON; or no connection.
Outcomes ==
    {[status |-> st, body |-> b] : st \in {"success", "error"},
                                   b \in {"json", "empty", "garbage"}}
    \cup {[status |-> "no_connection", body |-> "empty"]}

\* The rest of get / post / post_json / delete once the answer is in:
\* raise_for_status(), then response.json(); delete returns {} for an empty body.
Receive(method, outcome) ==
    IF outcome.status = "no_connection" THEN Raise("ConnectError", "", "")
    ELSE IF outcome.status = "error" THEN Raise("HTTPStatusError", "", "")
    ELSE IF outcome.body = "json" THEN Ok("body")
    ELSE IF outcome.body = "empty" /\ method = "DELETE" THEN Ok("{}")
    ELSE Raise("JSONDecodeError", "", "")

----------------------------------------------------------------------------
(* cli.py: parse_duration, parse_matcher *)

Digits == {"0", "1", "2", "3", "4", "5", "6", "7", "8", "9"}

\* str.lower() of one character.
LowerChar(c) ==
    IF \E i \in 34..59 : Printable[i] = c
    THEN Printable[(CHOOSE i \in 34..59 : Printable[i] = c) + 32]
    ELSE c

Lower(s) == [i \in 1..Len(s) |-> LowerChar(s[i])]

RECURSIVE ToInt(_)
\* int(digits)
ToInt(ds) ==
    IF ds = <<>> THEN 0
    ELSE 10 * ToInt(SubSeq(ds, 1, Len(ds) - 1)) + (Ord(ds[Len(ds)]) - 48)

\* What $ lets a match end before: a final newline is left aside.
ChopNewline(s) ==
    IF s # <<>> /\ s[Len(s)] = "\n" THEN SubSeq(s, 1, Len(s) - 1) ELSE s

UnitSeconds(u) ==
    CASE u = "s" -> 1 [] u = "m" -> 60 [] u = "h" -> 3600 [] u = "d" -> 86400

\* re.match(r'^(\d+)([smhd])$', duration.lower()); the timedelta in seconds.
parse_duration(duration) ==
    LET t == ChopNewline(Lower(duration))
        n == Len(t)
    IN  IF /\ n >= 2
           /\ t[n] \in {"s", "m", "h", "d"}
           /\ \A i \in 1..(n - 1) : t[i] \in Digits
        THEN Ok(ToInt(SubSeq(t, 1, n - 1)) * UnitSeconds(t[n]))
        ELSE Raise("BadParameter", "Invalid duration format: ", duration)

\* re.match(r'^([^=!~]+)(=~|!~|!=|=)(.*)$', matcher)
parse_matcher(matcher) ==
    LET stops == {i \in 1..Len(matcher) : matcher[i] \in {"=", "!", "~"}}
        k     == IF stops = {} THEN 0 ELSE CHOOSE i \in stops : \A j \in stops : i <= j
        two   == IF k # 0 /\ k < Len(matcher) THEN <<matcher[k], matcher[k + 1]>> ELSE <<>>
        op    == IF two \in {<<"=", "~">>, <<"!", "~">>, <<"!", "=">>} THEN two
                 ELSE IF k # 0 /\ matcher[k] = "=" THEN <<"=">>
                 ELSE <<>>
        rest  == ChopNewline(From(matcher, k + Len(op)))
    IN  IF k > 1 /\ op # <<>> /\ \A i \in 1..Len(rest) : rest[i] # "\n"
        THEN Ok([name    |-> SubSeq(matcher, 1, k - 1),
                 value   |-> rest,
                 isRegex |-> op \in {<<"=", "~">>, <<"!", "~">>},
                 isEqual |-> op \in {<<"=">>, <<"=", "~">>}])
        ELSE Raise("BadParameter", "Invalid matcher format: ", matcher)

RECURSIVE ParseMatchers(_)
\* [parse_matcher(m) for m in matchers]: the first malformed matcher raises.
ParseMatchers(ms) ==
    IF ms = <<>> THEN Ok(<<>>)
    ELSE Then(Sequenced(<<parse_matcher(ms[1]), ParseMatchers(Tail(ms))>>),
              LAMBDA v : Ok(<<v[1]>> \o v[2]))

----------------------------------------------------------------------------
(* Inputs: secrets, tools and environments *)

MaxParts == 3

VAR_A == <<"$", "{", "A", "}">>

REF_V == OP_SCHEME \o <<"v">>

REF_W == OP_SCHEME \o <<"w">>

EMBED_V == OPEN \o REF_V \o <<"}">>

EMBED_W == OPEN \o REF_W \o <<"}">>

\* The pieces the resolver's inputs are put together from.
Segments == {<<"$">>, <<"{">>, <<"}">>, <<"A">>, VAR_A, REF_V, EMBED_V, EMBED_W}

SecretValues ==
    {Flatten(parts) : parts \in UNION {[1..n -> Segments] : n \in 0..MaxParts}}

\* The tool is absent; it holds both items; it holds one item whose value reads
\* like a placeholder; it is signed out and fails on every reference.
Tools ==
    { [installed |-> FALSE, vault |-> <<>>, stderr |-> <<>>],
      [installed |-> TRUE,
       vault |-> (REF_V :> <<" ", "s", "3", "\n">>) @@ (REF_W :> <<"w">>),
       stderr |-> <<>>],
      [installed |-> TRUE,
       vault |-> (REF_V :> (<<"p">> \o VAR_A \o <<"\n">>)),
       stderr |-> <<"n", "o", " ", "i", "t", "e", "m", "\n">>],
      [installed |-> TRUE, vault |-> <<>>,
       stderr |-> <<" ", "d", "e", "n", "i", "e", "d", "\n">>] }

\* No variable; A set; A set to text that reads like a placeholder, next to a
\* variable named like a reference.
Environments ==
    { <<>>,
      (<<"A">> :> <<"x">>),
      (<<"A">> :> VAR_A) @@ (REF_V :> <<"e", "n", "v">>) }

----------------------------------------------------------------------------
(* The unit harness: one call of a pure function *)

NoCall == [fn |-> "none", arg |-> <<>>]

\* The process part of the state while a single function is exercised.
CliIdle ==
    /\ fs = None
    /\ argv = None
    /\ pc = "unit"
    /\ config = None
    /\ selected = None
    /\ client = None
    /\ requests = <<>>
    /\ transports = <<>>
    /\ responses = <<>>
    /\ stdout = <<>>
    /\ stderr = <<>>
    /\ exitCode = None

InitSecret ==
    /\ call \in {[fn |-> "resolve_secret", arg |-> v] : v \in SecretValues}
    /\ ret = None
    /\ opTool \in Tools
    /\ environ \in Environments
    /\ CliIdle

CallResolveSecret ==
    /\ call.fn = "resolve_secret"
    /\ ret = None
    /\ ret' = Some(resolve_secret(environ, opTool, call.arg))
    /\ UNCHANGED <<call, cliVars>>

NextSecret == CallResolveSecret

SpecSecret == InitSecret /\ [][NextSecret]_vars

\* The credentials and custom headers a ServiceConfig may hold.
Usernames == {None, Some(<<>>), Some(<<"u">>), Some(<<"u", "s">>)}

Tokens == {None, Some(<<>>), Some(<<"t">>), Some(<<"t", "o", "k">>)}

CustomHeaders ==
    { None,
      Some(<<>>),
      Some([k \in {"X-Scope-OrgID"} |-> <<"1">>]),
      Some([k \in {"Authorization"} |-> <<"K", "e", "y", " ", "9">>]),
      Some([k \in {"authorization"} |-> <<"K", "e", "y", " ", "9">>]),
      Some([k \in {"Accept", "X-Scope-OrgID"} |-> <<"*", "/", "*">>]) }

URL_PLAIN == <<"h", "t", "t", "p", ":", "/", "/", "h">>

InitHeaders ==
    /\ call \in {[fn |-> "_get_headers", arg |-> ServiceConfig(URL_PLAIN, t, u, h)] :
                    t \in Tokens, u \in Usernames, h \in CustomHeaders}
    /\ ret = None
    /\ opTool \in {t \in Tools : ~t.installed}
    /\ environ = <<>>
    /\ CliIdle

CallGetHeaders ==
    /\ call.fn = "_get_headers"
    /\ ret = None
    /\ ret' = Some(_get_headers(call.arg))
    /\ UNCHANGED <<call, cliVars>>

NextHeaders == CallGetHeaders

SpecHeaders == InitHeaders /\ [][NextHeaders]_vars

\* The raw fields of a section of the file: absent, blank, literal, or a
\* placeholder of the environment.
RawFields == {None, Some(<<>>), Some(<<"t">>), Some(VAR_A)}

\* The raw headers mapping of a section: absent, empty, or one entry.
RawHeaders == {None, Some(<<>>), Some(<<<<"X-Scope-OrgID", VAR_A>>>>)}

InitService ==
    /\ call \in {[fn |-> "parse_service_config",
                   arg |-> Some([url |-> u, token |-> t, username |-> n, headers |-> h])] :
                    u \in RawFields, t \in RawFields, n \in RawFields, h \in RawHeaders}
    /\ ret = None
    /\ opTool \in {t \in Tools : ~t.installed}
    /\ environ \in {e \in Environments : DOMAIN e \subseteq {<<"A">>}}
    /\ CliIdle

CallParseServiceConfig ==
    /\ call.fn = "parse_service_config"
    /\ ret = None
    /\ ret' = Some(parse_service_config(environ, opTool, call.arg))
    /\ UNCHANGED <<call, cliVars>>

NextService == CallParseServiceConfig

SpecService == InitService /\ [][NextService]_vars


----------------------------------------------------------------------------
(* cli.py: get_default_times, get_default_times_unix *)

DEFAULT_TIME_RANGE_MINUTES == 15

DigitChars == <<"0", "1", "2", "3", "4", "5", "6", "7", "8", "9">>

RECURSIVE Str(_)
\* str(n) of a non-negative integer
Str(n) == IF n < 10 THEN <<DigitChars[n + 1]>>
          ELSE Str(n \div 10) \o <<DigitChars[(n % 10) + 1]>>

RECURSIVE Pad(_, _)
\* The zero-padded field of strftime: %Y is 4 wide, %m %d %H %M %S are 2 wide.
Pad(n, width) ==
    IF width = 0 THEN <<>>
    ELSE Pad(n \div 10, width - 1) \o <<DigitChars[(n % 10) + 1]>>

\* The calendar date of a day number (days since 1970-01-01) in the proleptic
\* Gregorian calendar of datetime: year of era, day of year, month.
YearOfEra(doe) == (doe - doe \div 1460 + doe \div 36524 - doe \div 146096) \div 365

DayOfYear(doe, yoe) == doe - (365 * yoe + yoe \div 4 - yoe \div 100)

MonthOf(mp) == IF mp < 10 THEN mp + 3 ELSE mp - 9

DateOfEra(era, yoe, doy, mp) ==
    [year  |-> yoe + era * 400 + (IF MonthOf(mp) <= 2 THEN 1 ELSE 0),
     month |-> MonthOf(mp),
     day   |-> doy - (153 * mp + 2) \div 5 + 1]

DateOfDoe(era, doe, yoe) ==
    DateOfEra(era, yoe, DayOfYear(doe, yoe), (5 * DayOfYear(doe, yoe) + 2) \div 153)

DateOfDay(z) ==
    DateOfDoe((z + 719468) \div 146097, (z + 719468) % 146097,
              YearOfEra((z + 719468) % 146097))

\* datetime.strftime("%Y-%m-%dT%H:%M:%SZ") of a UTC time given in whole seconds
\* since the epoch: the microseconds have no field in the format.
Render(date, sod) ==
    Pad(date.year, 4) \o <<"-">> \o Pad(date.month, 2) \o <<"-">> \o Pad(date.day, 2)
    \o <<"T">> \o Pad(sod \div 3600, 2) \o <<":">> \o Pad((sod % 3600) \div 60, 2)
    \o <<":">> \o Pad(sod % 60, 2) \o <<"Z">>

strftime(secs) == Render(DateOfDay(secs \div 86400), secs % 86400)

\* Mutant: the pair comes back in the order (end, start).
get_default_times_swapped(now, minutes) ==
    <<strftime(now.secs), strftime(now.secs - minutes * 60)>>

\* now = datetime.now(timezone.utc); start = now - timedelta(minutes=minutes)
get_default_times(now, minutes) ==
    <<strftime(now.secs - minutes * 60), strftime(now.secs)>>

\* str(int(start.timestamp())), str(int(now.timestamp())): the fraction of a
\* second, the same in both, is cut off.
get_default_times_unix(now, minutes) ==
    <<Str(now.secs - minutes * 60), Str(now.secs)>>

\* start=start or default_start, end=end or default_end
OrDefault(given, default) == IF Truthy(given) THEN given[1] ELSE default

\* The start and end parameters of the one request of loki query, prom range
\* and tempo search.
WindowParams(command, start, end, now) ==
    [start |-> OrDefault(start,
                 (IF command = "search"
                  THEN get_default_times_unix(now, DEFAULT_TIME_RANGE_MINUTES)
                  ELSE get_default_times(now, DEFAULT_TIME_RANGE_MINUTES))[1]),
     end   |-> OrDefault(end,
                 (IF command = "search"
                  THEN get_default_times_unix(now, DEFAULT_TIME_RANGE_MINUTES)
                  ELSE get_default_times(now, DEFAULT_TIME_RANGE_MINUTES))[2])]

\* Readings of the clock: around the end of February in a leap year, a common
\* year and the year 2000, just after a new year, where the Unix seconds gain
\* a digit, and an ordinary afternoon; with and without a fraction of a second.
ClockSeconds ==
    {1709251500, 1677629100, 1704067210, 951869100, 1000000200, 1793882096}

Clocks == {[secs |-> t, micros |-> u] : t \in ClockSeconds, u \in {0, 999999}}

\* --start / --end: not given, given empty, given.
TimeInputs == {None, Some(<<>>), Some(<<"1", "7">>)}

WindowCommandNames == {"query", "range", "search"}

InitWindow ==
    /\ call \in {[fn |-> "time_window",
                   arg |-> [command |-> c, start |-> a, end |-> b, now |-> n]] :
                    c \in WindowCommandNames, a \in TimeInputs, b \in TimeInputs,
                    n \in Clocks}
    /\ ret = None
    /\ opTool \in {t \in Tools : ~t.installed}
    /\ environ = <<>>
    /\ CliIdle

CallTimeWindow ==
    /\ call.fn = "time_window"
    /\ ret = None
    /\ ret' = Some(WindowParams(call.arg.command, call.arg.start, call.arg.end,
                                call.arg.now))
    /\ UNCHANGED <<call, cliVars>>

NextWindow == CallTimeWindow

SpecWindow == InitWindow /\ [][NextWindow]_vars

MaxInputLen == 4

\* The strings of up to MaxInputLen characters over an alphabet.
StringsOver(alphabet) == UNION {[1..n -> alphabet] : n \in 0..MaxInputLen}

\* The characters a --matcher value is made of here: a name character, the
\* three operator characters, a line break.
MatcherAlphabet == {"a", "=", "!", "~", "\n"}

InitMatcher ==
    /\ call \in {[fn |-> "parse_matcher", arg |-> m] : m \in StringsOver(MatcherAlphabet)}
    /\ ret = None
    /\ opTool \in {t \in Tools : ~t.installed}
    /\ environ = <<>>
    /\ CliIdle

CallParseMatcher ==
    /\ call.fn = "parse_matcher"
    /\ ret = None
    /\ ret' = Some(parse_matcher(call.arg))
    /\ UNCHANGED <<call, cliVars>>

NextMatcher == CallParseMatcher

SpecMatcher == InitMatcher /\ [][NextMatcher]_vars

\* The characters a --duration value is made of here: two digits, a unit in
\* both cases, a letter that is no unit, a line break.
DurationAlphabet == {"0", "3", "h", "H", "x", "\n"}

InitDuration ==
    /\ call \in {[fn |-> "parse_duration", arg |-> d] : d \in StringsOver(DurationAlphabet)}
    /\ ret = None
    /\ opTool \in {t \in Tools : ~t.installed}
    /\ environ = <<>>
    /\ CliIdle

CallParseDuration ==
    /\ call.fn = "parse_duration"
    /\ ret = None
    /\ ret' = Some(parse_duration(call.arg))
    /\ UNCHANGED <<call, cliVars>>

NextDuration == CallParseDuration

SpecDuration == InitDuration /\ [][NextDuration]_vars

\* url = f"{self.base_url}{path}"
RequestUrl(cl, path) == cl.base_url \o path

\* Configured URLs, as strings over a host character and the separator.
UrlAlphabet == {"h", "/"}

\* Paths of client operations, shortened.
PathInputs == {<<"/", "q">>, <<"/", "a", "/", "b">>, <<"/", "a", "/">>, <<"/">>}

InitUrl ==
    /\ call \in {[fn |-> "get", arg |-> [url |-> u, path |-> q]] :
                    u \in StringsOver(UrlAlphabet), q \in PathInputs}
    /\ ret = None
    /\ opTool \in {t \in Tools : ~t.installed}
    /\ environ = <<>>
    /\ CliIdle

\* LGTMClient(config), then the URL that get / post / post_json / delete build.
CallRequestUrl ==
    /\ call.fn = "get"
    /\ ret = None
    /\ LET cl == LGTMClient(ServiceConfig(call.arg.url, None, None, None))
       IN  ret' = Some([base_url |-> cl.base_url, url |-> RequestUrl(cl, call.arg.path)])
    /\ UNCHANGED <<call, cliVars>>

NextUrl == CallRequestUrl

SpecUrl == InitUrl /\ [][NextUrl]_vars

MaxCalls == 2

\* The four network calls of LGTMClient and the HTTP method each one sends.
ClientCalls == {"get", "post", "post_json", "delete"}

HttpMethod(fn) ==
    IF fn = "get" THEN "GET" ELSE IF fn = "delete" THEN "DELETE" ELSE "POST"

\* One client object, before its first call.
InitTransport ==
    /\ call = NoCall
    /\ ret = None
    /\ fs = None
    /\ opTool \in {t \in Tools : ~t.installed}
    /\ environ = <<>>
    /\ argv = None
    /\ pc = "idle"
    /\ config = None
    /\ selected = None
    /\ client \in {Some(LGTMClient(ServiceConfig(u, Some(<<"t">>), None, None))) :
                     u \in {URL_PLAIN, URL_PLAIN \o <<"/">>}}
    /\ requests = <<>>
    /\ transports = <<>>
    /\ responses = <<>>
    /\ stdout = <<>>
    /\ stderr = <<>>
    /\ exitCode = None

\* get / post / post_json / delete up to the request: the with block is
\* entered, which creates the httpx.Client, and the request goes out on it.
EnterCall ==
    /\ pc = "idle"
    /\ Len(requests) < MaxCalls
    /\ \E fn \in ClientCalls :
        /\ call' = [fn |-> fn, arg |-> <<"/", "p">>]
        /\ transports' = Acquire(transports, Len(requests) + 1)
        /\ requests' = Issue(requests, Request(client[1], HttpMethod(fn), "/p"))
    /\ pc' = "in_call"
    /\ UNCHANGED <<ret, fs, opTool, environ, argv, config, selected, client,
                   responses, stdout, stderr, exitCode>>

\* The rest of the call: the answer, raise_for_status(), response.json(), and
\* the end of the with block on the way out.
LeaveCall ==
    /\ pc = "in_call"
    /\ \E outcome \in Outcomes :
        /\ responses' = Append(responses, outcome)
        /\ ret' = Some(Receive(HttpMethod(call.fn), outcome))
        /\ transports' = Release(transports, ~Receive(HttpMethod(call.fn), outcome).ok)
    /\ pc' = "idle"
    /\ UNCHANGED <<call, fs, opTool, environ, argv, config, selected, client,
                   requests, stdout, stderr, exitCode>>

NextTransport == EnterCall \/ LeaveCall

SpecTransport == InitTransport /\ [][NextTransport]_vars

----------------------------------------------------------------------------
(* Inputs: configuration files and command lines *)

InstancePool == <<"dev", "prod", "stage", "qa">>

MaxInstances == 2

\* The keys of the instances mapping: any YAML string, the empty one included.
UnitNames == {InstancePool[i] : i \in 1..MaxInstances} \cup {""}

\* An InstanceConfig with no backend
BareInstance(name) ==
    [name |-> name, loki |-> None, prometheus |-> None, tempo |-> None, alerting |-> None]

\* The instances mappings of up to MaxInstances distinct names, in every order.
UnitInstanceLists ==
    {[i \in DOMAIN names |-> BareInstance(names[i])] :
        names \in {f \in UNION {[1..k -> UnitNames] : k \in 0..MaxInstances} :
                        \A i, j \in DOMAIN f : i # j => f[i] # f[j]}}

NameChoices == {None, Some("")} \cup {Some(n) : n \in UnitNames \cup {"ghost"}}

InitInstance ==
    /\ call \in {[fn |-> "get_instance",
                   arg |-> [cfg  |-> [version |-> "1", default_instance |-> d,
                                      instances |-> l],
                            name |-> n]] :
                    d \in NameChoices, l \in UnitInstanceLists, n \in NameChoices}
    /\ ret = None
    /\ opTool \in {t \in Tools : ~t.installed}
    /\ environ = <<>>
    /\ CliIdle

CallGetInstance ==
    /\ call.fn = "get_instance"
    /\ ret = None
    /\ ret' = Some(get_instance(call.arg.cfg, call.arg.name))
    /\ UNCHANGED <<call, cliVars>>

NextInstance == CallGetInstance

SpecInstance == InitInstance /\ [][NextInstance]_vars

MaxMatchers == 2

Section(url, token, username, headers) ==
    [url |-> url, token |-> token, username |-> username, headers |-> headers]

URL_SLASH == URL_PLAIN \o <<"/">>

TOKEN == <<"t", "o", "k">>

\* Every backend configured, with literal values.
ProfilePlain ==
    [loki       |-> Some(Section(Some(URL_SLASH), Some(TOKEN), None, None)),
     prometheus |-> Some(Section(Some(URL_PLAIN), Some(TOKEN), Some(<<"u">>), None)),
     tempo      |-> Some(Section(Some(URL_PLAIN), None, None, None)),
     alerting   |-> Some(Section(Some(URL_PLAIN), Some(TOKEN), None,
                         Some(<<<<"X-Scope-OrgID", <<"1">>>>>>)))]

\* No loki section; the other three draw on the vault and the environment.
ProfileVault ==
    [loki       |-> None,
     prometheus |-> Some(Section(Some(URL_PLAIN), Some(REF_V), None, None)),
     tempo      |-> Some(Section(Some(URL_PLAIN), None, None,
                         Some(<<<<"X-Scope-OrgID", <<"A">> \o EMBED_W>>>>))),
     alerting   |-> Some(Section(Some(URL_PLAIN), Some(EMBED_V), Some(VAR_A), None))]

\* Only loki, its URL read from the vault; an empty prometheus section.
ProfileLokiOnly ==
    [loki       |-> Some(Section(Some(REF_W), None, None, None)),
     prometheus |-> Some(EmptyMapping),
     tempo      |-> None,
     alerting   |-> None]

Profiles == {ProfilePlain, ProfileVault, ProfileLokiOnly}


RawInstance(name, profile) ==
    [name |-> name, loki |-> profile.loki, prometheus |-> profile.prometheus,
     tempo |-> profile.tempo, alerting |-> profile.alerting]

\* The instances of a file: up to two, under distinct names, in file order.
InstanceLists ==
    {<<>>}
    \cup {<<RawInstance(n, p)>> : n \in {"dev", "prod"}, p \in Profiles}
    \cup {<<RawInstance(n[1], p), RawInstance(n[2], q)>> :
            n \in {<<"dev", "prod">>, <<"prod", "dev">>}, p \in Profiles, q \in Profiles}

Documents ==
    {[version |-> "1", default_instance |-> d, instances |-> l] :
        d \in {None, Some("prod")}, l \in InstanceLists}

Groups == {"loki", "prom", "tempo", "alerts"}

\* The commands that make one GET call: group, command, path of the call.
GetCommands ==
    { <<"loki", "query", "/loki/api/v1/query_range">>,
      <<"loki", "instant", "/loki/api/v1/query">>,
      <<"loki", "labels", "/loki/api/v1/labels">>,
      <<"loki", "label-values", "/loki/api/v1/label/{label}/values">>,
      <<"loki", "series", "/loki/api/v1/series">>,
      <<"prom", "query", "/api/v1/query">>,
      <<"prom", "range", "/api/v1/query_range">>,
      <<"prom", "labels", "/api/v1/labels">>,
      <<"prom", "label-values", "/api/v1/label/{label}/values">>,
      <<"prom", "series", "/api/v1/series">>,
      <<"prom", "metadata", "/api/v1/metadata">>,
      <<"tempo", "trace", "/api/traces/{trace_id}">>,
      <<"tempo", "search", "/api/search">>,
      <<"tempo", "tags", "/api/search/tags">>,
      <<"tempo", "tag-values", "/api/search/tag/{tag}/values">>,
      <<"alerts", "list", "/api/alertmanager/grafana/api/v2/alerts">>,
      <<"alerts", "groups", "/api/alertmanager/grafana/api/v2/alerts/groups">>,
      <<"alerts", "silences", "/api/alertmanager/grafana/api/v2/silences">>,
      <<"alerts", "silence-get", "/api/alertmanager/grafana/api/v2/silence/{silence_id}">> }

\* --matcher values: two well-formed, two malformed.
MatcherInputs ==
    { <<"a", "=", "b">>, <<"a", "=", "~", "b">>, <<"a", "b">>, <<"=", "b">> }

\* --duration values: well-formed, unknown unit, no number.
DurationInputs == { <<"2", "h">>, <<"2", "x">>, <<"h">> }

MatcherLists == UNION {[1..n -> MatcherInputs] : n \in 1..MaxMatchers}

----------------------------------------------------------------------------
(* cli.py: the dispatcher *)

\* output_error(msg): one line "Error: <msg>" on the diagnostic stream.
ErrorLine(msg, arg) == [kind |-> "Error", type |-> "", msg |-> msg, arg |-> arg]

\* output_error(str(e)) for a caught exception e.
ErrorOf(e) == [kind |-> "Error", type |-> e.type, msg |-> e.msg, arg |-> e.arg]

\* An exception no handler catches: the interpreter prints its traceback.
Traceback(e) == [kind |-> "Traceback", type |-> e.type, msg |-> e.msg, arg |-> e.arg]

\* click's report of a rejected option: the usage text and its error.
UsageError(msg) == [kind |-> "Usage", type |-> "BadParameter", msg |-> msg, arg |-> ""]

\* sys.exit(code), or the interpreter ending on an uncaught exception.
Exit(code, out, err) ==
    /\ pc' = "exited"
    /\ exitCode' = Some(code)
    /\ stdout' = stdout \o out
    /\ stderr' = stderr \o err

InitCli ==
    /\ call = NoCall
    /\ ret = None
    /\ fs \in {None} \cup {Some(d) : d \in Documents}
    /\ opTool \in Tools
    /\ environ \in {e \in Environments : DOMAIN e \subseteq {<<"A">>}}
    /\ argv \in {[config |-> c, instance |-> i, group |-> None, command |-> None,
                  matchers |-> <<>>, duration |-> <<>>] :
                    c \in BOOLEAN, i \in {None, Some("dev"), Some("ghost")}}
    /\ pc = "start"
    /\ config = None
    /\ selected = None
    /\ client = None
    /\ requests = <<>>
    /\ transports = <<>>
    /\ responses = <<>>
    /\ stdout = <<>>
    /\ stderr = <<>>
    /\ exitCode = None

\* The group callback of main: --config must name a file that exists
\* (click.Path(exists=True)); load_config; only FileNotFoundError is caught.
main ==
    /\ pc = "start"
    /\ IF argv.config /\ fs = None
       THEN /\ Exit(2, <<>>, <<UsageError("Invalid value for '--config'")>>)
            /\ UNCHANGED config
       ELSE LET r == load_config(environ, opTool, fs)
            IN  IF r.ok
                THEN /\ config' = Some(r.val)
                     /\ pc' = "main_done"
                     /\ UNCHANGED <<stdout, stderr, exitCode>>
                ELSE IF r.type = "FileNotFoundError"
                THEN /\ Exit(1, <<>>, <<ErrorOf(r),
                                        ErrorLine("Create a config file at ", "")>>)
                     /\ UNCHANGED config
                ELSE /\ Exit(1, <<>>, <<Traceback(r)>>)
                     /\ UNCHANGED config
    /\ UNCHANGED <<call, ret, fs, opTool, environ, argv, selected, client, requests,
                   transports, responses>>

\* Mutant: every group looks at the loki section.
GroupSectionLokiEverywhere(inst, group) == inst.loki

\* instance.loki / instance.prometheus / instance.tempo / instance.alerting:
\* the section the callback of a group looks at.
GroupSection(inst, group) ==
    CASE group = "loki"   -> inst.loki
      [] group = "prom"   -> inst.prometheus
      [] group = "tempo"  -> inst.tempo
      [] group = "alerts" -> inst.alerting

\* The name the callback of a group puts in its message.
GroupTitle(group) ==
    CASE group = "loki"   -> "Loki"
      [] group = "prom"   -> "Prometheus"
      [] group = "tempo"  -> "Tempo"
      [] group = "alerts" -> "Alerting"

\* The callback of a command group: get_instance (uncaught when it raises),
\* then the check that the backend is configured, then the client.
GroupCallback(group) ==
    /\ pc = "main_done"
    /\ argv.group = None
    /\ argv' = [argv EXCEPT !.group = Some(group)]
    /\ LET r == get_instance(config[1], argv.instance)
       IN  /\ selected' = Some(r)
           /\ IF ~r.ok
              THEN /\ Exit(1, <<>>, <<Traceback(r)>>)
                   /\ UNCHANGED client
              ELSE IF GroupSection(r.val, group) = None
              THEN /\ Exit(1, <<>>, <<ErrorLine(<<GroupTitle(group),
                                                  " not configured for instance ">>,
                                                r.val.name)>>)
                   /\ UNCHANGED client
              ELSE /\ client' = Some(LGTMClient(GroupSection(r.val, group)[1]))
                   /\ pc' = "group_done"
                   /\ UNCHANGED <<stdout, stderr, exitCode>>
    /\ UNCHANGED <<call, ret, fs, opTool, environ, config, requests, transports,
                   responses>>

loki == GroupCallback("loki")

prom == GroupCallback("prom")

tempo == GroupCallback("tempo")

alerts == GroupCallback("alerts")

\* The instances command: lists every instance with its four URLs.
instances ==
    /\ pc = "main_done"
    /\ argv.group = None
    /\ argv' = [argv EXCEPT !.group = Some("instances"), !.command = Some("instances")]
    /\ Exit(0, <<[kind |-> "json", of |-> "instances"]>>, <<>>)
    /\ UNCHANGED <<call, ret, fs, opTool, environ, config, selected, client, requests,
                   transports, responses>>

\* Any of the commands whose body is one GET call inside try/except.
GetCommand ==
    /\ pc = "group_done"
    /\ argv.command = None
    /\ \E c \in GetCommands :
        /\ c[1] = argv.group[1]
        /\ argv' = [argv EXCEPT !.command = Some(c[2])]
        /\ transports' = Acquire(transports, Len(requests) + 1)
        /\ requests' = Issue(requests, Request(client[1], "GET", c[3]))
    /\ pc' = "awaiting"
    /\ UNCHANGED <<call, ret, fs, opTool, environ, config, selected, client,
                   responses, stdout, stderr, exitCode>>

\* Mutant: the duration is not looked at before the call.
ValidateSilenceMatchersOnly(ms, d) == Sequenced(<<ParseMatchers(ms), Ok(0)>>)

\* parsed_matchers = [parse_matcher(m) ...]; delta = parse_duration(duration)
ValidateSilence(ms, d) == Sequenced(<<ParseMatchers(ms), parse_duration(d)>>)

\* silence-create: the matchers and the duration are parsed, then the POST.
alerts_silence_create ==
    /\ pc = "group_done"
    /\ argv.command = None
    /\ argv.group = Some("alerts")
    /\ \E ms \in MatcherLists, d \in DurationInputs :
        LET v == ValidateSilence(ms, d)
        IN  /\ argv' = [argv EXCEPT !.command = Some("silence-create"),
                                    !.matchers = ms, !.duration = d]
            /\ IF ~v.ok
               THEN /\ Exit(1, <<>>, <<ErrorOf(v)>>)
                    /\ UNCHANGED <<requests, transports>>
               ELSE /\ transports' = Acquire(transports, Len(requests) + 1)
                    /\ requests' = Issue(requests,
                            Request(client[1], "POST",
                                    "/api/alertmanager/grafana/api/v2/silences"))
                    /\ pc' = "awaiting"
                    /\ UNCHANGED <<stdout, stderr, exitCode>>
    /\ UNCHANGED <<call, ret, fs, opTool, environ, config, selected, client, responses>>

\* silence-delete: one DELETE call.
alerts_silence_delete ==
    /\ pc = "group_done"
    /\ argv.command = None
    /\ argv.group = Some("alerts")
    /\ argv' = [argv EXCEPT !.command = Some("silence-delete")]
    /\ transports' = Acquire(transports, Len(requests) + 1)
    /\ requests' = Issue(requests,
            Request(client[1], "DELETE",
                    "/api/alertmanager/grafana/api/v2/silence/{silence_id}"))
    /\ pc' = "awaiting"
    /\ UNCHANGED <<call, ret, fs, opTool, environ, config, selected, client,
                   responses, stdout, stderr, exitCode>>

\* The answer arrives and the command's try/except finishes: the result is
\* printed and the process ends with 0, or the error is printed and it ends with 1.
Respond ==
    /\ pc = "awaiting"
    /\ \E outcome \in Outcomes :
        LET r == Receive(requests[Len(requests)].method, outcome)
        IN  /\ responses' = Append(responses, outcome)
            /\ transports' = Release(transports, ~r.ok)
            /\ IF r.ok
               THEN Exit(0, <<[kind |-> IF argv.command = Some("silence-delete")
                                        THEN "text" ELSE "json",
                               of |-> argv.command[1]]>>, <<>>)
               ELSE Exit(1, <<>>, <<ErrorOf(r)>>)
    /\ UNCHANGED <<call, ret, fs, opTool, environ, argv, config, selected, client,
                   requests>>

Init == InitCli

Next ==
    \/ main
    \/ loki
    \/ prom
    \/ tempo
    \/ alerts
    \/ instances
    \/ GetCommand
    \/ alerts_silence_create
    \/ alerts_silence_delete
    \/ Respond

Spec == Init /\ [][Next]_vars

----------------------------------------------------------------------------
(* Claims C8 and C9: the secret resolver *)

\* A complete ${op://...} occurrence somewhere in s.
HasEmbeddedRef(s) ==
    \E i \in 1..Len(s) : \E j \in (i + 8)..Len(s) :
        /\ SubSeq(s, i, i + 6) = OPEN \o OP_SCHEME
        /\ s[j] = "}"
        /\ \A k \in (i + 7)..(j - 1) : s[k] # "}"

HasExternalForm(s) == StartsWith(s, OP_SCHEME) \/ HasEmbeddedRef(s)

RECURSIVE ExpandByBrace(_, _)
\* What the claim asks of ${VAR} substitution, read off the text brace by
\* brace: up to each closing brace, the first "${" that has a name after it
\* opens a placeholder, which becomes the variable's value or nothing when the
\* variable is unset; all other text is kept.
ExpandByBrace(env, s) ==
    LET k == IndexFrom(s, "}", 1)
    IN  IF k = 0 THEN s
        ELSE LET chunk  == SubSeq(s, 1, k - 1)
                 starts == {i \in 1..(Len(chunk) - 2) :
                                chunk[i] = "$" /\ chunk[i + 1] = "{"}
                 i      == CHOOSE x \in starts : \A y \in starts : x <= y
                 name   == SubSeq(chunk, i + 2, Len(chunk))
             IN  IF starts = {}
                 THEN chunk \o <<"}">> \o ExpandByBrace(env, From(s, k + 1))
                 ELSE SubSeq(chunk, 1, i - 1)
                        \o (IF name \in DOMAIN env THEN env[name] ELSE <<>>)
                        \o ExpandByBrace(env, From(s, k + 1))

ResolveSecretReturned == call.fn = "resolve_secret" /\ ret # None

\* C8: for a value without external-reference forms, resolve_secret never
\* raises and returns the value with every ${VAR_NAME} replaced by the
\* variable's value, or by the empty string when it is unset, and all other
\* text unchanged.
C8_EnvSubstitution ==
    (ResolveSecretReturned /\ ~HasExternalForm(call.arg))
        => /\ ret[1].ok
           /\ ret[1].val = ExpandByBrace(environ, call.arg)

\* C8 witness: a value holding a placeholder of an unset variable between
\* other text was resolved to that text alone.
C8_Witness ==
    /\ ResolveSecretReturned
    /\ call.arg = <<"A">> \o VAR_A \o <<"A">>
    /\ environ = <<>>
    /\ ret[1] = Ok(<<"A", "A">>)

\* The stand-in for the k-th resolved reference: one character that is no
\* brace and no dollar sign.
Mark(k) == <<"#1", "#2", "#3", "#4", "#5", "#6", "#7", "#8">>[k]

RECURSIVE MaskRefs(_, _)
\* s with its k-th, (k+1)-th, ... embedded reference replaced by its mark.
MaskRefs(s, k) ==
    LET i == FindMatch(s, OPEN \o OP_SCHEME, 1)
    IN  IF i = 0 THEN s
        ELSE SubSeq(s, 1, i - 1) \o <<Mark(k)>>
                \o MaskRefs(From(s, MatchEnd(s, OPEN \o OP_SCHEME, i) + 1), k + 1)

RECURSIVE RefsIn(_)
\* The embedded references of s, in order.
RefsIn(s) ==
    LET i == FindMatch(s, OPEN \o OP_SCHEME, 1)
        e == MatchEnd(s, OPEN \o OP_SCHEME, i)
    IN  IF i = 0 THEN <<>>
        ELSE <<SubSeq(s, i + 2, e - 1)>> \o RefsIn(From(s, e + 1))

\* s with every mark replaced by the trimmed output of the tool for its reference.
FillMarks(s, tool, refs) ==
    Flatten([i \in 1..Len(s) |->
        IF \E k \in 1..Len(refs) : s[i] = Mark(k)
        THEN Strip(tool.vault[refs[CHOOSE k \in 1..Len(refs) : s[i] = Mark(k)]])
        ELSE <<s[i]>>])

\* C9: a value that begins with op:// is replaced as a whole by the trimmed
\* output of the tool for that literal value; every embedded ${op://...} is
\* replaced by exactly the trimmed output of the tool for its reference,
\* whatever the environment holds: the ${VAR} forms of the remaining text are
\* substituted, the resolved secrets are not touched.
C9_ExternalReferences ==
    (ResolveSecretReturned /\ opTool.installed)
        => /\ (StartsWith(call.arg, OP_SCHEME) /\ call.arg \in DOMAIN opTool.vault)
                => ret[1] = Ok(Strip(opTool.vault[call.arg]))
           /\ (/\ ~StartsWith(call.arg, OP_SCHEME)
               /\ \A k \in 1..Len(RefsIn(call.arg)) :
                      RefsIn(call.arg)[k] \in DOMAIN opTool.vault)
                => ret[1] = Ok(FillMarks(SubEnv(environ, MaskRefs(call.arg, 1)),
                                         opTool, RefsIn(call.arg)))

----------------------------------------------------------------------------
(* Claim C1: the request headers *)

B64Value(c) == (CHOOSE i \in 1..64 : B64Alphabet[i] = c) - 1

RECURSIVE B64Decode(_)
\* The bytes a base64 text stands for.
B64Decode(s) ==
    IF Len(s) < 4 THEN <<>>
    ELSE LET a == B64Value(s[1])
             b == B64Value(s[2])
         IN  IF s[3] = "="
             THEN <<a * 4 + b \div 16>>
             ELSE IF s[4] = "="
             THEN <<a * 4 + b \div 16, (b % 16) * 16 + B64Value(s[3]) \div 4>>
             ELSE <<a * 4 + b \div 16,
                    (b % 16) * 16 + B64Value(s[3]) \div 4,
                    (B64Value(s[3]) % 4) * 64 + B64Value(s[4])>>
                    \o B64Decode(SubSeq(s, 5, Len(s)))

GetHeadersReturned == call.fn = "_get_headers" /\ ret # None

\* The custom headers of a ServiceConfig as a mapping (empty when unset).
CustomOf(svc) == IF svc.headers = None THEN <<>> ELSE svc.headers[1]

\* The headers are Accept: application/json, the credential header that
\* `basic` and `bearer` select, and the custom headers merged last.
HeadersFollow(svc, hdrs, basic, bearer) ==
    LET custom == CustomOf(svc)
    IN  /\ DOMAIN hdrs = {"Accept"} \cup DOMAIN custom
                            \cup (IF basic \/ bearer THEN {"Authorization"} ELSE {})
        /\ \A k \in DOMAIN custom : hdrs[k] = custom[k]
        /\ "Accept" \notin DOMAIN custom => hdrs["Accept"] = APPLICATION_JSON
        /\ (basic /\ "Authorization" \notin DOMAIN custom)
              => /\ StartsWith(hdrs["Authorization"], BASIC)
                 /\ B64Decode(From(hdrs["Authorization"], Len(BASIC) + 1))
                        = Encode(svc.username[1] \o <<":">> \o svc.token[1])
        /\ (bearer /\ "Authorization" \notin DOMAIN custom)
              => hdrs["Authorization"] = BEARER \o svc.token[1]

\* C1 as stated, "set" meaning not None: Basic when username and token are
\* both set, Bearer when only the token is set, no derived header otherwise.
C1_Original ==
    GetHeadersReturned
        => HeadersFollow(call.arg, ret[1],
                         call.arg.username # None /\ call.arg.token # None,
                         call.arg.username = None /\ call.arg.token # None)

\* C1, amended: _get_headers returns Accept: application/json plus one
\* credential header: Basic base64(username:token) when username and token are
\* both set and non-empty, else Bearer token when the token is set and
\* non-empty, else none; the custom headers are merged last and replace a
\* derived entry of the same key.
C1_Headers ==
    GetHeadersReturned
        => HeadersFollow(call.arg, ret[1],
                         Truthy(call.arg.username) /\ Truthy(call.arg.token),
                         ~Truthy(call.arg.username) /\ Truthy(call.arg.token))

\* C1 witness: a Basic header was derived, with padding in its base64 text,
\* next to a custom header of another key.
C1_Witness ==
    /\ GetHeadersReturned
    /\ call.arg.username = Some(<<"u", "s">>)
    /\ call.arg.token = Some(<<"t">>)
    /\ DOMAIN ret[1] = {"Accept", "Authorization", "X-Scope-OrgID"}
    /\ ret[1]["Authorization"] = BASIC \o <<"d", "X", "M", "6", "d", "A", "=", "=">>

----------------------------------------------------------------------------
(* Claims C2 and C3: Config.get_instance *)

GetInstanceReturned == call.fn = "get_instance" /\ ret # None

\* The instance the call designates: the name when one is given (non-empty),
\* else default_instance when it is set (non-empty), else nothing.
Designated ==
    IF TruthyName(call.arg.name) THEN call.arg.name
    ELSE IF TruthyName(call.arg.cfg.default_instance) THEN call.arg.cfg.default_instance
    ELSE None

\* The result is the instance stored under name n.
ReturnedInstanceOf(n) ==
    /\ ret[1].ok
    /\ ret[1].val.name = n
    /\ \E i \in DOMAIN call.arg.cfg.instances : call.arg.cfg.instances[i] = ret[1].val

\* C2 as stated, "given" and "set" meaning not None: the instance stored under
\* the name when a name is given, else the one default_instance designates
\* when it is set, else the first instance in the order of the file.
C2_Original ==
    GetInstanceReturned =>
        LET cfg  == call.arg.cfg
            name == call.arg.name
        IN  /\ (name # None /\ name[1] \in InstanceNamesOf(cfg))
                   => ReturnedInstanceOf(name[1])
            /\ (name = None /\ cfg.default_instance # None
                    /\ cfg.default_instance[1] \in InstanceNamesOf(cfg))
                   => ReturnedInstanceOf(cfg.default_instance[1])
            /\ (name = None /\ cfg.default_instance = None /\ cfg.instances # <<>>)
                   => /\ ret[1].ok
                      /\ ret[1].val = cfg.instances[1]

\* C2, amended: get_instance selects exactly one instance, by precedence: the
\* explicit name when a non-empty one is given, else default_instance when it
\* is set and non-empty, else the first instance in the order of the file.
C2_InstancePrecedence ==
    GetInstanceReturned =>
        LET cfg == call.arg.cfg
        IN  /\ (Designated # None /\ Designated[1] \in InstanceNamesOf(cfg))
                   => ReturnedInstanceOf(Designated[1])
            /\ (Designated = None /\ cfg.instances # <<>>)
                   => /\ ret[1].ok
                      /\ ret[1].val = cfg.instances[1]
            /\ ret[1].ok
                   => Cardinality({i \in DOMAIN cfg.instances :
                                       cfg.instances[i] = ret[1].val}) = 1

\* C2 witness: a name and a different default_instance are both given, both
\* exist, neither is the first instance of the file's order for the other,
\* and the named one was returned.
C2_Witness ==
    /\ GetInstanceReturned
    /\ call.arg.name = Some("prod")
    /\ call.arg.cfg.default_instance = Some("dev")
    /\ Len(call.arg.cfg.instances) = 2
    /\ call.arg.cfg.instances[1].name = "dev"
    /\ ReturnedInstanceOf("prod")

\* C3: when the referenced instance (the name, or default_instance when no
\* name is given) does not exist in the configuration, get_instance fails with
\* the instance-not-found error, whose message names it.
C3_MissingInstance ==
    (GetInstanceReturned /\ Designated # None
        /\ Designated[1] \notin InstanceNamesOf(call.arg.cfg))
      => /\ ~ret[1].ok
         /\ ret[1].type = "ValueError"
         /\ ret[1].msg = "Instance not found in config"
         /\ ret[1].arg = Designated[1]

----------------------------------------------------------------------------
(* Claims C4 to C7 and C10: a run of the command line *)

Exited == pc = "exited"

\* C4: a run that did not print its command's result ends with status 1 and
\* exactly one line "Error: <message>" on the diagnostic stream, whatever the
\* kind of the error; status 0 belongs to the runs that printed the result.
C4_ErrorsReported ==
    Exited =>
        /\ stdout = <<>> =>
              /\ exitCode = Some(1)
              /\ Len(stderr) = 1
              /\ stderr[1].kind = "Error"
        /\ exitCode = Some(0) => (stdout # <<>> /\ stderr = <<>>)

\* The section of the selected instance that the claim ties to each group.
BackendOf(inst, group) ==
    IF group = "loki" THEN inst.loki
    ELSE IF group = "prom" THEN inst.prometheus
    ELSE IF group = "tempo" THEN inst.tempo
    ELSE inst.alerting

NotConfiguredLines ==
    {i \in DOMAIN stderr : stderr[i].kind = "Error" /\ stderr[i].type = ""
                             /\ Len(stderr[i].msg) = 2
                             /\ stderr[i].msg[2] = " not configured for instance "}

\* C5: once a group has selected its instance, a missing section for that
\* group's backend ends the run with status 1, the one line "<Backend> not
\* configured for instance <name>" and no request; a group whose section is
\* present gets its client and no such line, whatever the other sections
\* are; the instances listing ends with status 0 without any request.
C5_BackendNotConfigured ==
    /\ \A g \in Groups :
          (argv # <<>> /\ argv.group = Some(g) /\ selected # None /\ selected[1].ok) =>
              IF BackendOf(selected[1].val, g) = None
              THEN /\ Exited
                   /\ exitCode = Some(1)
                   /\ requests = <<>>
                   /\ client = None
                   /\ stdout = <<>>
                   /\ Len(stderr) = 1
                   /\ NotConfiguredLines = {1}
                   /\ stderr[1].arg = selected[1].val.name
              ELSE /\ client # None
                   /\ client[1].config = BackendOf(selected[1].val, g)[1]
                   /\ NotConfiguredLines = {}
    /\ (argv # <<>> /\ argv.group = Some("instances")) =>
              /\ Exited
              /\ exitCode = Some(0)
              /\ requests = <<>>
              /\ stderr = <<>>

\* C5 witness: prom ran to a printed result on an instance that has no loki
\* section.
C5_Witness ==
    /\ Exited
    /\ argv.group = Some("prom")
    /\ selected[1].ok
    /\ selected[1].val.loki = None
    /\ exitCode = Some(0)
    /\ Len(requests) = 1

\* C5, second case: loki stopped as not configured on an instance whose
\* other three sections are present.
C5_StoppedCase ==
    /\ Exited
    /\ argv.group = Some("loki")
    /\ selected[1].ok
    /\ selected[1].val.loki = None
    /\ selected[1].val.prometheus # None
    /\ NotConfiguredLines = {1}

\* C6: a run issues at most one HTTP request: none before a command body
\* runs, exactly one while the answer is awaited and after it, and a failed
\* request is not followed by another.
C6_AtMostOneRequest ==
    /\ Len(requests) <= 1
    /\ pc = "awaiting" => Len(requests) = 1
    /\ (Exited /\ Len(stderr) = 1 /\ stderr[1].type \in {"HTTPStatusError", "ConnectError",
                                                        "JSONDecodeError"})
          => Len(requests) = 1
    /\ (pc \in {"start", "main_done", "group_done", "unit"}) => requests = <<>>

\* C6 witness: the one request failed to connect and the run ended with
\* status 1 and still one request.
C6_Witness ==
    /\ Exited
    /\ exitCode = Some(1)
    /\ Len(requests) = 1
    /\ Len(stderr) = 1
    /\ stderr[1].type = "ConnectError"

OperatorChars == {"=", "!", "~"}

\* A matcher of the documented grammar: a non-empty name free of operator
\* characters, then one of = != =~ !~, then any value.
WellFormedMatcher(m) ==
    \E k \in 2..Len(m) :
        /\ \A i \in 1..(k - 1) : m[i] \notin OperatorChars
        /\ \/ m[k] = "="
           \/ /\ k < Len(m)
              /\ <<m[k], m[k + 1]>> \in {<<"!", "=">>, <<"=", "~">>, <<"!", "~">>}

\* A duration of the documented grammar: digits, then one of s m h d.
WellFormedDuration(d) ==
    /\ Len(d) >= 2
    /\ d[Len(d)] \in {"s", "m", "h", "d"}
    /\ \A i \in 1..(Len(d) - 1) : d[i] \in Digits

SilenceCreateRan == argv # <<>> /\ argv.command = Some("silence-create")

\* C7: silence-create validates every matcher and the duration before the
\* network: when one of them does not parse, the run has ended with status 1,
\* one parameter-error line and no request; a request was issued only when
\* all of them parsed, and then it is the one POST.
C7_ValidationBeforeNetwork ==
    SilenceCreateRan =>
        IF /\ \A i \in DOMAIN argv.matchers : parse_matcher(argv.matchers[i]).ok
           /\ parse_duration(argv.duration).ok
        THEN /\ Len(requests) = 1
             /\ requests[1].method = "POST"
        ELSE /\ requests = <<>>
             /\ Exited
             /\ exitCode = Some(1)
             /\ stdout = <<>>
             /\ Len(stderr) = 1
             /\ stderr[1].kind = "Error"
             /\ stderr[1].type = "BadParameter"

\* C7 witness: two well-formed matchers, a malformed duration, and the run
\* ended on the parameter error without a request.
C7_Witness ==
    /\ SilenceCreateRan
    /\ Exited
    /\ Len(argv.matchers) = 2
    /\ \A i \in DOMAIN argv.matchers : WellFormedMatcher(argv.matchers[i])
    /\ ~WellFormedDuration(argv.duration)
    /\ requests = <<>>
    /\ stderr[1].type = "BadParameter"

\* The values of one raw section that go through the resolver.
SectionValues(sec) ==
    IF sec = None \/ sec[1] = EmptyMapping THEN {}
    ELSE {o[1] : o \in {sec[1].url, sec[1].token, sec[1].username} \ {None}}
         \cup (IF sec[1].headers = None THEN {}
               ELSE {sec[1].headers[1][i][2] : i \in DOMAIN sec[1].headers[1]})

\* The references of a value: the value itself when it is a whole-value
\* reference, else the embedded ones.
ReferencesOf(v) ==
    IF StartsWith(v, OP_SCHEME) THEN {v}
    ELSE {RefsIn(v)[i] : i \in DOMAIN RefsIn(v)}

\* Every reference of every instance of the file, selected or not.
FileReferences(file) ==
    UNION {ReferencesOf(v) :
            v \in UNION {SectionValues(file.instances[i].loki)
                           \cup SectionValues(file.instances[i].prometheus)
                           \cup SectionValues(file.instances[i].tempo)
                           \cup SectionValues(file.instances[i].alerting) :
                         i \in DOMAIN file.instances}}

\* The tool is missing, or exits non-zero for the reference.
ToolFails(ref) == ~opTool.installed \/ ref \notin DOMAIN opTool.vault

Loaded == pc \notin {"start", "unit"} /\ fs # None

\* C10: when the tool is missing or fails for any reference of any instance
\* of the file, load_config fails with a RuntimeError (the tool's trimmed
\* diagnostic text, or that the tool is not installed) and no Config exists:
\* no group ever selects an instance, not even one without references.
C10_ResolutionFailureAborts ==
    (Loaded /\ \E ref \in FileReferences(fs[1]) : ToolFails(ref)) =>
        /\ config = None
        /\ selected = None
        /\ client = None
        /\ requests = <<>>
        /\ Exited
        /\ Len(stderr) = 1
        /\ stderr[1].type = "RuntimeError"
        /\ IF opTool.installed
           THEN /\ stderr[1].msg = "Failed to read from 1Password: "
                /\ stderr[1].arg = Strip(opTool.stderr)
           ELSE stderr[1].msg = "1Password CLI (op) not found"

\* C10 witness: the instance the run names has only literal values, the
\* other instance of the file has a reference the installed tool fails for,
\* and the load failed.
C10_Witness ==
    /\ Loaded
    /\ Exited
    /\ argv.instance = Some("dev")
    /\ opTool.installed
    /\ Len(fs[1].instances) = 2
    /\ fs[1].instances[1] = RawInstance("dev", ProfilePlain)
    /\ \E ref \in FileReferences(fs[1]) : ToolFails(ref)
    /\ config = None
    /\ stderr[1].type = "RuntimeError"

----------------------------------------------------------------------------
(* Claim C11: parse_service_config *)

ParseServiceReturned == call.fn = "parse_service_config" /\ ret # None

\* A text field of the result follows the raw field: unset when the raw field
\* is absent, the resolved string (the empty one included) when it is present.
FieldFollows(raw, built) ==
    IF raw = None THEN built = None
    ELSE /\ built # None
         /\ built[1] = ExpandByBrace(environ, raw[1])

\* C11: for a section that is present, parse_service_config builds a
\* ServiceConfig in which url, token, username and headers are unset exactly
\* when the field is absent from the section; a present field holds its
\* resolved string, the empty string included, and an absent url does not
\* become the empty string.
C11_AbsentStaysUnset ==
    ParseServiceReturned =>
        /\ ret[1].ok
        /\ ret[1].val # None
        /\ LET raw == call.arg[1]
               svc == ret[1].val[1]
           IN  /\ raw.url = None => svc.url # <<>>
               /\ raw.url # None => svc.url = ExpandByBrace(environ, raw.url[1])
               /\ FieldFollows(raw.token, svc.token)
               /\ FieldFollows(raw.username, svc.username)
               /\ (raw.headers = None) <=> (svc.headers = None)

----------------------------------------------------------------------------
(* Claim C12: the default time window *)

WindowReturned == call.fn = "time_window" /\ ret # None

\* The text has the shape YYYY-MM-DDTHH:MM:SSZ.
HasTimestampShape(s) ==
    /\ Len(s) = 20
    /\ s[5] = "-" /\ s[8] = "-" /\ s[11] = "T" /\ s[14] = ":" /\ s[17] = ":" /\ s[20] = "Z"
    /\ \A i \in (1..19) \ {5, 8, 11, 14, 17} : s[i] \in Digits

LeapYear(y) == (y % 4 = 0 /\ y % 100 # 0) \/ y % 400 = 0

DaysInMonth(y, m) ==
    IF m = 2 THEN (IF LeapYear(y) THEN 29 ELSE 28)
    ELSE IF m \in {4, 6, 9, 11} THEN 30 ELSE 31

RECURSIVE DaysBeforeMonth(_, _)
DaysBeforeMonth(y, m) ==
    IF m = 1 THEN 0 ELSE DaysBeforeMonth(y, m - 1) + DaysInMonth(y, m - 1)

RECURSIVE DaysBeforeYear(_)
DaysBeforeYear(y) ==
    IF y = 1970 THEN 0
    ELSE DaysBeforeYear(y - 1) + (IF LeapYear(y - 1) THEN 366 ELSE 365)

\* The seconds since the epoch that a well-shaped timestamp denotes, counted
\* year by year and month by month.
SecondsOfTimestamp(s) ==
    86400 * (DaysBeforeYear(ToInt(SubSeq(s, 1, 4)))
             + DaysBeforeMonth(ToInt(SubSeq(s, 1, 4)), ToInt(SubSeq(s, 6, 7)))
             + ToInt(SubSeq(s, 9, 10)) - 1)
    + 3600 * ToInt(SubSeq(s, 12, 13)) + 60 * ToInt(SubSeq(s, 15, 16))
    + ToInt(SubSeq(s, 18, 19))

\* The fields of a well-shaped timestamp are those of a date and a time of day.
IsCalendarTime(s) ==
    /\ ToInt(SubSeq(s, 6, 7)) \in 1..12
    /\ ToInt(SubSeq(s, 9, 10)) \in
          1..DaysInMonth(ToInt(SubSeq(s, 1, 4)), ToInt(SubSeq(s, 6, 7)))
    /\ ToInt(SubSeq(s, 12, 13)) \in 0..23
    /\ ToInt(SubSeq(s, 15, 16)) \in 0..59
    /\ ToInt(SubSeq(s, 18, 19)) \in 0..59

\* The text denotes the time t (whole seconds) in the format of the command.
Denotes(command, s, t) ==
    IF command = "search"
    THEN /\ s # <<>>
         /\ \A i \in DOMAIN s : s[i] \in Digits
         /\ s[1] # "0"
         /\ ToInt(s) = t
    ELSE /\ HasTimestampShape(s)
         /\ IsCalendarTime(s)
         /\ SecondsOfTimestamp(s) = t

\* The window that a command with the given options must send.
WindowFollows(startGiven, endGiven) ==
    /\ IF startGiven THEN ret[1].start = call.arg.start[1]
       ELSE Denotes(call.arg.command, ret[1].start, call.arg.now.secs - 900)
    /\ IF endGiven THEN ret[1].end = call.arg.end[1]
       ELSE Denotes(call.arg.command, ret[1].end, call.arg.now.secs)

\* C12 as stated, a supplied value being any value given on the command line:
\* it is passed through unchanged, and what is not supplied is the default.
C12_Original ==
    WindowReturned => WindowFollows(call.arg.start # None, call.arg.end # None)

\* C12, amended: for loki query, prom range and tempo search the request
\* carries each non-empty --start / --end unchanged; a value that is not
\* given or given empty is the default: end = the current time, start = that
\* time minus exactly 900 seconds, rendered as YYYY-MM-DDTHH:MM:SSZ, for
\* tempo search as Unix seconds.
C12_DefaultWindow ==
    WindowReturned => WindowFollows(Truthy(call.arg.start), Truthy(call.arg.end))

\* C12 witness: loki query without --start and --end five minutes after the
\* midnight that follows 29 February 2024: the start falls in February.
C12_Witness ==
    /\ WindowReturned
    /\ call.arg.command = "query"
    /\ call.arg.start = None /\ call.arg.end = None
    /\ call.arg.now.secs = 1709251500
    /\ SubSeq(ret[1].start, 1, 10) = <<"2", "0", "2", "4", "-", "0", "2", "-", "2", "9">>
    /\ SubSeq(ret[1].end, 1, 10) = <<"2", "0", "2", "4", "-", "0", "3", "-", "0", "1">>

----------------------------------------------------------------------------
(* Claims C13 and C14: parse_matcher and parse_duration *)

ParseMatcherReturned == call.fn = "parse_matcher" /\ ret # None

\* The operator that stands at position k of m, the two-character ones first;
\* the empty text when none stands there.
OperatorAt(m, k) ==
    IF k < Len(m) /\ <<m[k], m[k + 1]>> \in {<<"!", "=">>, <<"=", "~">>, <<"!", "~">>}
    THEN <<m[k], m[k + 1]>>
    ELSE IF k <= Len(m) /\ m[k] = "=" THEN <<"=">>
    ELSE <<>>

\* The positions where m splits as name<op>value: a non-empty name free of
\* operator characters, then an operator.
SplitsOf(m) ==
    {k \in 2..Len(m) : /\ \A i \in 1..(k - 1) : m[i] \notin OperatorChars
                       /\ OperatorAt(m, k) # <<>>}

\* C13: parse_matcher accepts exactly the strings name<op>value with a
\* non-empty name and <op> one of = != =~ !~; name is the text before the
\* operator, value all the text after it, isRegex is true exactly for =~ and
\* !~, isEqual exactly for = and =~; every other string is a parameter error.
C13_MatcherGrammar ==
    ParseMatcherReturned =>
        LET m == call.arg
        IN  IF SplitsOf(m) = {}
            THEN /\ ~ret[1].ok
                 /\ ret[1].type = "BadParameter"
            ELSE LET k  == CHOOSE k \in SplitsOf(m) : TRUE
                     op == OperatorAt(m, k)
                 IN  /\ ret[1].ok
                     /\ ret[1].val.name = SubSeq(m, 1, k - 1)
                     /\ ret[1].val.value = SubSeq(m, k + Len(op), Len(m))
                     /\ ret[1].val.isRegex <=> op \in {<<"=", "~">>, <<"!", "~">>}
                     /\ ret[1].val.isEqual <=> op \in {<<"=">>, <<"=", "~">>}

ParseDurationReturned == call.fn = "parse_duration" /\ ret # None

SecondsPerUnit(u) ==
    IF u = "s" THEN 1 ELSE IF u = "m" THEN 60 ELSE IF u = "h" THEN 3600 ELSE 86400

\* C14: parse_duration succeeds exactly when the string is an integer followed
\* by one unit character of s m h d, and returns that many seconds, minutes,
\* hours or days; anything else (other or upper-case units, no number, extra
\* characters) is a parameter error.
C14_DurationGrammar ==
    ParseDurationReturned =>
        LET d == call.arg
        IN  IF WellFormedDuration(d)
            THEN /\ ret[1].ok
                 /\ ret[1].val = ToInt(SubSeq(d, 1, Len(d) - 1)) * SecondsPerUnit(d[Len(d)])
            ELSE /\ ~ret[1].ok
                 /\ ret[1].type = "BadParameter"

----------------------------------------------------------------------------
(* Claim C15: the base URL *)

RequestUrlReturned == call.fn = "get" /\ ret # None

\* C15: the base URL is the configured URL with a single trailing "/" trimmed:
\* a URL that ends in "/" loses that one character, a URL that does not is
\* unchanged, at most one character is removed; the request URL is the base
\* URL followed by the path.
C15_SingleSeparatorTrimmed ==
    RequestUrlReturned =>
        LET u == call.arg.url
        IN  /\ ret[1].base_url =
                   (IF u # <<>> /\ u[Len(u)] = "/" THEN SubSeq(u, 1, Len(u) - 1) ELSE u)
            /\ Len(u) - Len(ret[1].base_url) <= 1
            /\ ret[1].url = ret[1].base_url \o call.arg.path

----------------------------------------------------------------------------
(* Claim C16: the transport of a network call *)

OpenTransports == {i \in DOMAIN transports : transports[i].open}

\* C16: each network call acquires a transport of its own and releases it on
\* every path out of the call: between calls no transport is open, whatever
\* the outcome was; during a call the only open transport is that call's; no
\* transport belongs to two calls and no call to two transports.
C16_TransportScoped ==
    /\ pc = "idle" => OpenTransports = {}
    /\ pc = "in_call" => OpenTransports = {Len(requests)}
    /\ Len(transports) = Len(requests)
    /\ \A i \in DOMAIN transports : transports[i].owner = i

\* C16 witness: two calls were made, the second one failed to parse the body
\* of the answer, and both transports are closed.
C16_Witness ==
    /\ pc = "idle"
    /\ Len(transports) = 2
    /\ ret # None
    /\ ~ret[1].ok
    /\ ret[1].type = "JSONDecodeError"
    /\ OpenTransports = {}

----------------------------------------------------------------------------
(* Claim C17: silence-delete and the empty body *)

SilenceDeleteAnswered ==
    /\ Exited
    /\ argv # <<>>
    /\ argv.command = Some("silence-delete")
    /\ Len(responses) = 1

FailedWith(type) ==
    /\ exitCode = Some(1)
    /\ stdout = <<>>
    /\ Len(stderr) = 1
    /\ stderr[1].kind = "Error"
    /\ stderr[1].type = type

\* C17: when the DELETE of silence-delete comes back with a success status
\* and an empty body, the delete operation returns an empty result and the
\* command prints its message and exits 0; with an error status the operation
\* fails whatever the body is; a non-empty success body is parsed as JSON, so
\* the command exits 0 when it is JSON and fails when it is not.
C17_EmptyBodyTolerated ==
    /\ Receive("DELETE", [status |-> "success", body |-> "empty"]) = Ok("{}")
    /\ SilenceDeleteAnswered =>
          /\ requests[1].method = "DELETE"
          /\ (responses[1].status = "success" /\ responses[1].body \in {"empty", "json"})
                => /\ exitCode = Some(0)
                   /\ stderr = <<>>
                   /\ stdout = <<[kind |-> "text", of |-> "silence-delete"]>>
          /\ responses[1].status = "error" => FailedWith("HTTPStatusError")
          /\ (responses[1].status = "success" /\ responses[1].body = "garbage")
                => FailedWith("JSONDecodeError")

\* C17 witness: silence-delete got a success status with an empty body and
\* the run ended with status 0.
C17_Witness ==
    /\ SilenceDeleteAnswered
    /\ responses[1] = [status |-> "success", body |-> "empty"]
    /\ exitCode = Some(0)

\* C17, second case: an error status with an empty body ended the run with
\* status 1.
C17_ErrorStatusCase ==
    /\ SilenceDeleteAnswered
    /\ responses[1] = [status |-> "error", body |-> "empty"]
    /\ exitCode = Some(1)

====
